---- MODULE Spec2Model ----
(***************************************************************************)
(* Model of multi_armed_bandit.py: average_runs driving one of the three   *)
(* strategies (run_epsilon_greedy, run_ucb, run_random).                    *)
(*                                                                         *)
(* Conventions                                                             *)
(*  - Python lists are sequences; a Python index i is position i+1.        *)
(*  - Reals are exact rationals <<n, d>> with d > 0, kept in lowest terms. *)
(*  - Probabilities (TRUE_MEANS, epsilon, the value of random.random())    *)
(*    are counted in tenths: 0.1 is 1, 1.0 is 10.                          *)
(*  - caller is "average_runs" when average_runs(strategy_fn, runs) drives  *)
(*    the strategy (epsilon is then the default EPSILON), and "direct"     *)
(*    when the strategy function is called once on its own.                *)
(*  - A raised Python exception moves pc to "error"; err holds its name    *)
(*    and err_line the source line that raised it.                         *)
(***************************************************************************)
EXTENDS Integers, Sequences, FiniteSets, TLC

VARIABLES
    caller, NUM_ARMS, NUM_STEPS, TRUE_MEANS, epsilon, runs, strategy_fn,
    all_rewards, all_final_values, run, avg, avg_values,
    counts, values, total_reward, rewards, step,
    selected, branch, history,
    pc, err, err_line

config == <<caller, NUM_ARMS, NUM_STEPS, TRUE_MEANS, epsilon, runs, strategy_fn>>
aggvars == <<all_rewards, all_final_values, run, avg, avg_values>>
runvars == <<counts, values, total_reward, rewards, step, selected, branch, history>>
vars == <<config, aggvars, runvars, pc, err, err_line>>

\* ---------------------------------------------------------------- bounds
\* a strategy called on its own
MaxArms == 3
MaxSteps == 4
\* a strategy called by average_runs
MaxAvgArms == 2
MaxAvgSteps == 1
MaxRuns == 2

\* ------------------------------------------------------------- constants
\* EPSILON = 0.1, in tenths
EPSILON == 1
\* TRUE_MEANS = [0.2, 0.4, 0.8, 0.3, 0.6], in tenths
TrueMeansSrc == <<2, 4, 8, 3, 6>>
\* the values of random.random() tried, in tenths: the least one, a middle
\* one and the greatest one of the interval [0, 1)
RandomDraws == {0, 5, 9}
\* the epsilon arguments tried: negative, 0, the default, 1.0, above 1.0
Epsilons == {0 - 1, 0, EPSILON, 10, 11}
Strategies == {"run_epsilon_greedy", "run_ucb", "run_random"}

\* ------------------------------------------------------ exact arithmetic
RECURSIVE GCD(_, _)
GCD(a, b) == IF b = 0 THEN a ELSE GCD(b, a % b)

Abs(x) == IF x < 0 THEN 0 - x ELSE x

\* the rational n/d (d > 0) in lowest terms
Rat(n, d) ==
    LET g == GCD(Abs(n), d)
    IN  <<n \div g, d \div g>>

RAdd(a, b) == Rat(a[1] * b[2] + b[1] * a[2], a[2] * b[2])
RSub(a, b) == Rat(a[1] * b[2] - b[1] * a[2], a[2] * b[2])
\* division of a rational by a positive integer
RDivInt(a, k) == Rat(a[1], a[2] * k)
RLeq(a, b) == a[1] * b[2] <= b[1] * a[2]
REq(a, b) == a[1] * b[2] = b[1] * a[2]

RECURSIVE RSum(_)
RSum(s) == IF s = <<>> THEN <<0, 1>> ELSE RAdd(s[1], RSum(Tail(s)))

\* [x] * n
Repeat(x, n) == [i \in 1..n |-> x]

\* ------------------------------------------------------ Python built-ins
\* max(s) of a non-empty list of rationals
PyMax(s) ==
    CHOOSE x \in {s[i] : i \in 1..Len(s)} : \A j \in 1..Len(s) : RLeq(s[j], x)

\* s.index(x): the first Python index holding x
IndexLast(s, x) ==
    (CHOOSE i \in 1..Len(s) : s[i] = x /\ \A j \in (i + 1)..Len(s) : s[j] # x) - 1

Index(s, x) ==
    (CHOOSE i \in 1..Len(s) : s[i] = x /\ \A j \in 1..(i - 1) : s[j] # x) - 1

\* random.randint(lo, hi): the integers it can return (both ends included)
RandIntOpen(lo, hi) == lo..(hi + 1)

RandInt(lo, hi) == lo..hi

\* 1000 * math.log(n), n = 1..12, rounded
Ln1000 == <<0, 693, 1099, 1386, 1609, 1792, 1946, 2079, 2197, 2303, 2398, 2485>>

RECURSIVE SqrtBetween(_, _, _)
SqrtBetween(x, lo, hi) ==
    IF lo = hi THEN lo
    ELSE LET mid == (lo + hi + 1) \div 2
         IN  IF mid * mid <= x THEN SqrtBetween(x, mid, hi)
             ELSE SqrtBetween(x, lo, mid - 1)

\* floor of the square root of x, 0 <= x < 2^31 (46340 is the largest root)
ISqrt(x) == SqrtBetween(x, 0, IF x < 46340 THEN x ELSE 46340)

\* ------------------------------------------------------------ pull_arm
\* the reward when random.random() returns u (tenths)
pull_arm(arm_index, u) == IF u < TRUE_MEANS[arm_index + 1] THEN 1 ELSE 0

\* ------------------------------------------------- pieces of a loop body
\* random.random() < epsilon, the draw being u
ExploreInclusive(u, eps) == u <= eps

Explore(u, eps) == u < eps

\* values[arm] += (reward - values[arm]) / counts[arm], counts[arm] being c
UpdateNoCount(v, reward, c) == RAdd(v, RSub(<<reward, 1>>, v))

Update(v, reward, c) == RAdd(v, RDivInt(RSub(<<reward, 1>>, v), c))

\* total_reward / (step + 1)
RunningAverageLate(total, stp) == Rat(total, stp + 2)

RunningAverage(total, stp) == Rat(total, stp + 1)

\* step < NUM_ARMS, the warm-up test of run_ucb
WarmUpShort(stp, n) == stp < n - 1

WarmUp(stp, n) == stp < n

\* arm = step, the warm-up choice of run_ucb
WarmUpArmReversed(stp, n) == n - 1 - stp

WarmUpArm(stp, n) == stp

\* values[a] + math.sqrt(2 * math.log(step + 1) / counts[a]), c >= 1, as a
\* whole number of thousandths (fixed point, each term rounded down)
UCBScore(v, stp, c) ==
    Rat((v[1] * 1000) \div v[2] + ISqrt((2 * Ln1000[stp + 1] * 1000) \div c), 1000)

ucb_scores(vals, cnts, stp) ==
    [i \in 1..Len(vals) |-> UCBScore(vals[i], stp, cnts[i])]

\* values.index(max(values)) of a non-empty list
GreedyArm(vals) == Index(vals, PyMax(vals))

\* ------------------------------------------------------------- control
Raise(e, line) == pc' = "error" /\ err' = e /\ err_line' = line

NoRaise == UNCHANGED <<pc, err, err_line>>

\* the lists a strategy starts from (lines 45-46, 71-72)
InitCounts(fn, n) == IF fn = "run_random" THEN <<>> ELSE Repeat(0, n)

InitValues(fn, n) == IF fn = "run_random" THEN <<>> ELSE Repeat(<<0, 1>>, n)

Init ==
    /\ caller \in {"average_runs", "direct"}
    /\ NUM_ARMS \in 0..(IF caller = "direct" THEN MaxArms ELSE MaxAvgArms)
    /\ NUM_STEPS \in 0..(IF caller = "direct" THEN MaxSteps ELSE MaxAvgSteps)
    /\ \E n \in 0..Len(TrueMeansSrc) :
          /\ n \in (NUM_ARMS - 1)..(NUM_ARMS + 1)
          /\ TRUE_MEANS = SubSeq(TrueMeansSrc, 1, n)
    /\ strategy_fn \in Strategies
    /\ epsilon \in IF strategy_fn = "run_epsilon_greedy" /\ caller = "direct"
                    THEN Epsilons ELSE {EPSILON}
    /\ runs \in IF caller = "direct" THEN {0} ELSE 0..MaxRuns
    /\ all_rewards = <<>>
    /\ all_final_values = <<>>
    /\ run = 0
    /\ avg = <<>>
    /\ avg_values = [tag |-> "unset"]
    /\ counts = IF caller = "direct" THEN InitCounts(strategy_fn, NUM_ARMS) ELSE <<>>
    /\ values = IF caller = "direct" THEN InitValues(strategy_fn, NUM_ARMS) ELSE <<>>
    /\ total_reward = 0
    /\ rewards = <<>>
    /\ step = 0
    /\ selected = <<>>
    /\ branch = "none"
    /\ history = <<>>
    /\ pc = IF caller = "direct" THEN "run" ELSE "loop"
    /\ err = "none"
    /\ err_line = 0

\* average_runs line 115 entering a run; the strategy's initialisation
StartRun ==
    /\ pc = "loop"
    /\ run < runs
    /\ counts' = InitCounts(strategy_fn, NUM_ARMS)
    /\ values' = InitValues(strategy_fn, NUM_ARMS)
    /\ total_reward' = 0
    /\ rewards' = <<>>
    /\ step' = 0
    /\ selected' = <<>>
    /\ branch' = "none"
    /\ history' = <<>>
    /\ pc' = "run"
    /\ UNCHANGED <<config, aggvars, err, err_line>>

\* reward = pull_arm(arm) and the estimator update that follows it
Learn(arm, br, line) ==
    /\ selected' = Append(selected, arm)
    /\ branch' = br
    /\ IF arm >= Len(TRUE_MEANS)
       THEN /\ Raise("IndexError", 38)
            /\ UNCHANGED <<counts, values, total_reward, rewards, step, history>>
       ELSE IF arm >= Len(counts)
       THEN /\ Raise("IndexError", line)
            /\ UNCHANGED <<counts, values, total_reward, rewards, step, history>>
       ELSE \E u \in RandomDraws :
            LET reward == pull_arm(arm, u)
                c == counts[arm + 1] + 1
            IN  /\ counts' = [counts EXCEPT ![arm + 1] = c]
                /\ values' = [values EXCEPT ![arm + 1] = Update(@, reward, c)]
                /\ total_reward' = total_reward + reward
                /\ rewards' = Append(rewards, RunningAverage(total_reward + reward, step))
                /\ step' = step + 1
                /\ history' = Append(history, <<arm, reward>>)
                /\ NoRaise

SelectionFails(e, line) ==
    /\ Raise(e, line)
    /\ UNCHANGED runvars

\* one iteration of the loop of run_epsilon_greedy
StepEG ==
    /\ pc = "run"
    /\ strategy_fn = "run_epsilon_greedy"
    /\ step < NUM_STEPS
    /\ \E u \in RandomDraws :
          IF Explore(u, epsilon)
          THEN IF RandInt(0, NUM_ARMS - 1) = {}
               THEN SelectionFails("ValueError", 53)
               ELSE \E arm \in RandInt(0, NUM_ARMS - 1) : Learn(arm, "explore", 58)
          ELSE IF values = <<>>
               THEN SelectionFails("ValueError", 55)
               ELSE Learn(GreedyArm(values), "exploit", 58)
    /\ UNCHANGED <<config, aggvars>>

\* one iteration of the loop of run_ucb
StepUCB ==
    /\ pc = "run"
    /\ strategy_fn = "run_ucb"
    /\ step < NUM_STEPS
    /\ IF WarmUp(step, NUM_ARMS)
       THEN Learn(WarmUpArm(step, NUM_ARMS), "warmup", 89)
       ELSE IF \E a \in 1..Len(counts) : counts[a] = 0
       THEN SelectionFails("ZeroDivisionError", 83)
       ELSE IF values = <<>>
       THEN SelectionFails("ValueError", 86)
       ELSE LET scores == ucb_scores(values, counts, step)
            IN  Learn(Index(scores, PyMax(scores)), "ucb", 89)
    /\ UNCHANGED <<config, aggvars>>

\* one iteration of the loop of run_random
StepRandom ==
    /\ pc = "run"
    /\ strategy_fn = "run_random"
    /\ step < NUM_STEPS
    /\ IF RandInt(0, NUM_ARMS - 1) = {}
       THEN SelectionFails("ValueError", 104)
       ELSE \E arm \in RandInt(0, NUM_ARMS - 1) :
            /\ selected' = Append(selected, arm)
            /\ branch' = "random"
            /\ IF arm >= Len(TRUE_MEANS)
               THEN /\ Raise("IndexError", 38)
                    /\ UNCHANGED <<total_reward, rewards, step, history>>
               ELSE \E u \in RandomDraws :
                    LET reward == pull_arm(arm, u)
                    IN  /\ total_reward' = total_reward + reward
                        /\ rewards' = Append(rewards,
                                             RunningAverage(total_reward + reward, step))
                        /\ step' = step + 1
                        /\ history' = Append(history, <<arm, reward>>)
                        /\ NoRaise
            /\ UNCHANGED <<counts, values>>
    /\ UNCHANGED <<config, aggvars>>

\* the strategy returns (rewards, values), or rewards alone for run_random;
\* average_runs lines 116-122 collect what it returned
ReturnRun ==
    /\ pc = "run"
    /\ step >= NUM_STEPS
    /\ IF caller = "direct"
       THEN /\ pc' = "returned"
            /\ UNCHANGED <<all_rewards, all_final_values, run>>
       ELSE /\ all_rewards' = Append(all_rewards, rewards)
            /\ all_final_values' = IF strategy_fn = "run_random" THEN all_final_values
                                   ELSE Append(all_final_values, values)
            /\ run' = run + 1
            /\ pc' = "loop"
    /\ UNCHANGED <<config, avg, avg_values, runvars, err, err_line>>

\* sum(lists[r][i] for r in range(n)) / n, n >= 1, for the Python index i
MeanAtSum(lists, i, n) == RSum([r \in 1..n |-> lists[r][i + 1]])

MeanAt(lists, i, n) == RDivInt(RSum([r \in 1..n |-> lists[r][i + 1]]), n)

\* lines 128-132: the second element of the pair average_runs returns
FinalValuesZeroFilled(finals, n) ==
    IF finals # <<>>
    THEN [tag |-> "list", items |-> [a \in 1..NUM_ARMS |-> MeanAt(finals, a - 1, n)]]
    ELSE [tag |-> "list", items |-> Repeat(<<0, 1>>, NUM_ARMS)]

FinalValues(finals, n) ==
    IF finals # <<>>
    THEN [tag |-> "list", items |-> [a \in 1..NUM_ARMS |-> MeanAt(finals, a - 1, n)]]
    ELSE [tag |-> "None"]

\* average_runs lines 125-132
Average ==
    /\ pc = "loop"
    /\ run >= runs
    /\ IF runs = 0 /\ NUM_STEPS > 0
       THEN /\ Raise("ZeroDivisionError", 125)
            /\ UNCHANGED <<avg, avg_values>>
       ELSE /\ avg' = [t \in 1..NUM_STEPS |-> MeanAt(all_rewards, t - 1, runs)]
            /\ avg_values' = FinalValues(all_final_values, runs)
            /\ pc' = "done"
            /\ UNCHANGED <<err, err_line>>
    /\ UNCHANGED <<config, all_rewards, all_final_values, run, runvars>>

Next ==
    \/ StartRun
    \/ StepEG
    \/ StepUCB
    \/ StepRandom
    \/ ReturnRun
    \/ Average

Spec == Init /\ [][Next]_vars

\* ======================================================================
\* Properties
\* ======================================================================
Learning == strategy_fn \in {"run_epsilon_greedy", "run_ucb"}

\* the Python indices of a list
Indices(s) == 0..(Len(s) - 1)

\* number of pulls of arm a among the first n steps of the history h
RECURSIVE PullsOf(_, _, _)
PullsOf(a, h, n) ==
    IF n = 0 THEN 0
    ELSE PullsOf(a, h, n - 1) + (IF h[n][1] = a THEN 1 ELSE 0)

\* sum of the rewards arm a earned among the first n steps of the history h
RECURSIVE RewardsOf(_, _, _)
RewardsOf(a, h, n) ==
    IF n = 0 THEN 0
    ELSE RewardsOf(a, h, n - 1) + (IF h[n][1] = a THEN h[n][2] ELSE 0)

\* sum of all the rewards of the first n steps of the history h
RECURSIVE RewardsThrough(_, _)
RewardsThrough(h, n) == IF n = 0 THEN 0 ELSE RewardsThrough(h, n - 1) + h[n][2]

\* product of the denominators of a list of rationals
RECURSIVE DenProduct(_)
DenProduct(s) == IF s = <<>> THEN 1 ELSE s[1][2] * DenProduct(Tail(s))

\* numerator of the sum of a list of rationals over the denominator p
RECURSIVE NumSum(_, _)
NumSum(s, p) ==
    IF s = <<>> THEN 0 ELSE s[1][1] * (p \div s[1][2]) + NumSum(Tail(s), p)

\* the rational m is the arithmetic mean of the non-empty list s of rationals
IsMeanOf(m, s) ==
    /\ m[2] > 0
    /\ m[1] * DenProduct(s) * Len(s) = NumSum(s, DenProduct(s)) * m[2]

InUnitInterval(q) == q[2] > 0 /\ 0 <= q[1] /\ q[1] <= q[2]

\* C1: in run_epsilon_greedy and run_ucb, at every step and for every arm a,
\* counts[a] is the number k of pulls of a so far and values[a] is exactly
\* (r_1 + ... + r_k) / k for the rewards r_i a earned, and 0 when k = 0.
C1_IncrementalMean ==
    Learning =>
        /\ Len(values) = Len(counts)
        /\ \A a \in Indices(counts) :
              LET k == PullsOf(a, history, Len(history))
                  v == values[a + 1]
              IN  /\ counts[a + 1] = k
                  /\ v[2] > 0
                  /\ IF k = 0 THEN v[1] = 0
                     ELSE v[1] * k = RewardsOf(a, history, Len(history)) * v[2]

C1_Witness ==
    /\ Learning
    /\ \E a \in Indices(counts) :
          /\ counts[a + 1] >= 2
          /\ 0 < values[a + 1][1]
          /\ values[a + 1][1] < values[a + 1][2]

\* C2: in run_ucb the arm selected at step index t is t for every t below
\* NUM_ARMS, whatever the rewards were.
C2_WarmUpOrder ==
    strategy_fn = "run_ucb" =>
        \A t \in Indices(selected) : t < NUM_ARMS => selected[t + 1] = t

C2_Witness ==
    /\ strategy_fn = "run_ucb"
    /\ NUM_ARMS >= 2
    /\ Len(history) > NUM_ARMS
    /\ \E i \in 1..Len(history) : history[i][2] = 1

\* C3: in run_ucb with NUM_ARMS >= 1, whenever the score expression is about
\* to be evaluated (a step with index >= NUM_ARMS) every counts[a] is >= 1, so
\* the division never raises; with NUM_STEPS < NUM_ARMS it is never evaluated.
C3_NoDivisionByZero ==
    (strategy_fn = "run_ucb" /\ NUM_ARMS >= 1) =>
        /\ ~(err = "ZeroDivisionError" /\ err_line = 83)
        /\ (pc = "run" /\ step < NUM_STEPS /\ step >= NUM_ARMS) =>
              \A a \in Indices(counts) : counts[a + 1] >= 1
        /\ NUM_STEPS < NUM_ARMS => branch # "ucb"

C3_Witness ==
    /\ strategy_fn = "run_ucb"
    /\ NUM_ARMS >= 2
    /\ branch = "ucb"
    /\ Len(history) > NUM_ARMS

\* a strategy has returned its trajectory, still held in rewards
Returned ==
    \/ pc = "returned"
    \/ caller = "average_runs" /\ pc = "loop" /\ run >= 1

\* C4: each strategy appends one element per step, and the trajectory it
\* returns has NUM_STEPS elements, element t being the sum of the rewards of
\* steps 0..t divided by t + 1.
C4_Trajectory ==
    /\ pc = "run" => Len(rewards) = step /\ Len(history) = step
    /\ Returned =>
          /\ Len(rewards) = NUM_STEPS
          /\ Len(history) = NUM_STEPS
          /\ \A t \in Indices(rewards) :
                /\ rewards[t + 1][2] > 0
                /\ rewards[t + 1][1] * (t + 1)
                       = RewardsThrough(history, t + 1) * rewards[t + 1][2]

C4_Witness ==
    /\ Returned
    /\ strategy_fn = "run_random"
    /\ NUM_STEPS >= 3
    /\ rewards[1] = <<1, 1>>
    /\ rewards[2] = <<1, 2>>
    /\ rewards[3] = <<2, 3>>

\* a configuration section 7 of the specification calls an error
ConfigError ==
    \/ NUM_ARMS <= 0
    \/ NUM_STEPS <= 0
    \/ caller = "average_runs" /\ runs <= 0
    \/ Len(TRUE_MEANS) # NUM_ARMS
    \/ epsilon < 0
    \/ epsilon > 10

\* C5: a configuration error is rejected before any arm is pulled.
C5_ConfigErrorRejected == ConfigError => history = <<>>

ValidConfig ==
    /\ NUM_ARMS >= 1
    /\ Len(TRUE_MEANS) = NUM_ARMS
    /\ 0 <= epsilon
    /\ epsilon <= 10

\* C6: under a valid configuration every arm a policy selects is in
\* [0, NUM_ARMS), and neither the selection nor pull_arm's lookup raises.
C6_ValidArm ==
    ValidConfig =>
        /\ \A i \in 1..Len(selected) : selected[i] \in 0..(NUM_ARMS - 1)
        /\ err # "IndexError"
        /\ pc = "error" => err_line = 125

C6_Witness ==
    /\ ValidConfig
    /\ NUM_ARMS >= 2
    /\ strategy_fn = "run_epsilon_greedy"
    /\ branch = "explore"
    /\ Len(history) = Len(selected)
    /\ Len(selected) >= 2
    /\ selected[Len(selected)] = NUM_ARMS - 1

\* a is the smallest index among the arms whose estimate in vals is maximal
IsFirstMax(vals, a) ==
    /\ a \in Indices(vals)
    /\ \A b \in Indices(vals) : RLeq(vals[b + 1], vals[a + 1])
    /\ \A b \in 0..(a - 1) : ~REq(vals[b + 1], vals[a + 1])

\* C7: run_epsilon_greedy with epsilon = 0 never explores, and every step
\* selects the first arm whose estimate is maximal before the step.
C7_PureGreedy ==
    [][(strategy_fn = "run_epsilon_greedy" /\ epsilon = 0
            /\ Len(selected') = Len(selected) + 1)
          => /\ branch' = "exploit"
             /\ IsFirstMax(values, selected'[Len(selected')])]_vars

C7_Witness ==
    /\ strategy_fn = "run_epsilon_greedy"
    /\ epsilon = 0
    /\ NUM_ARMS >= 2
    /\ branch = "exploit"
    /\ Len(selected) >= 2
    /\ values[1][1] > 0

\* C8: for runs >= 1 the curve average_runs returns has NUM_STEPS elements,
\* element t is the mean over the runs of the trajectories' element t, and
\* these and the curve's elements lie in [0, 1].
C8_AggregateCurve ==
    (pc = "done" /\ runs >= 1) =>
        /\ Len(avg) = NUM_STEPS
        /\ \A t \in 1..Len(avg) :
              /\ InUnitInterval(avg[t])
              /\ \A r \in 1..runs : InUnitInterval(all_rewards[r][t])
              /\ IsMeanOf(avg[t], [r \in 1..runs |-> all_rewards[r][t]])

C8_Witness ==
    /\ pc = "done"
    /\ runs >= 2
    /\ NUM_STEPS >= 1
    /\ avg[1] = <<1, 2>>

\* C9: average_runs returns None as final estimates for run_random, and for
\* the learning strategies with runs >= 1 a list of NUM_ARMS elements, element
\* a being the mean over the runs of the final values[a].
C9_FinalEstimates ==
    pc = "done" =>
        /\ strategy_fn = "run_random" => avg_values.tag = "None"
        /\ (Learning /\ runs >= 1) =>
              /\ avg_values.tag = "list"
              /\ Len(avg_values.items) = NUM_ARMS
              /\ \A a \in 1..NUM_ARMS :
                    IsMeanOf(avg_values.items[a],
                             [r \in 1..runs |-> all_final_values[r][a]])

C9_Witness ==
    /\ pc = "done"
    /\ Learning
    /\ runs >= 2
    /\ NUM_ARMS >= 2
    /\ avg_values.tag = "list"
    /\ avg_values.items[1] = <<1, 2>>

\* C10: run_epsilon_greedy with epsilon = 0 only ever pulls arm 0: every
\* other arm keeps counts[a] = 0 and values[a] = 0.
C10_OnlyArmZero ==
    (strategy_fn = "run_epsilon_greedy" /\ epsilon = 0) =>
        /\ \A i \in 1..Len(selected) : selected[i] = 0
        /\ \A a \in 1..(Len(counts) - 1) :
              counts[a + 1] = 0 /\ values[a + 1][1] = 0

C10_Witness ==
    /\ strategy_fn = "run_epsilon_greedy"
    /\ epsilon = 0
    /\ NUM_ARMS >= 2
    /\ counts[1] >= 3
    /\ values[1] = <<2, 3>>
====
